---- MODULE Spec2Model ----
(***************************************************************************)
(* A state-machine model of tez.model.Model (src/tez/model/model.py): the  *)
(* training orchestrator's fit loop, its train and validation epochs, the  *)
(* gradient accumulation of train_one_step, the lifecycle events sent to   *)
(* the callback runner, the distributed collectives, and save / load.      *)
(*                                                                         *)
(* The host framework is opaque.  A tensor of weights is the number of     *)
(* optimizer updates that produced it, a gradient buffer is the bag of     *)
(* batches whose backward pass was added to it, an optimizer or scheduler  *)
(* state is the number of steps taken.  An optional value is a sequence of *)
(* length at most one: None is <<>>.                                       *)
(***************************************************************************)
EXTENDS Integers, Sequences, FiniteSets, TLC

\* ------------------------------------------------------------------ bounds
MaxEpochs == 2
MaxBatches == 3
MaxValid == 1
MaxAccum == 2
MaxFits == 2
MaxCalls == 3

\* ----------------------------------------------------------- option values
None == <<>>
Some(x) == <<x>>
IsNone(o) == o = <<>>
Val(o) == o[1]

\* ------------------------------------------------------------------- state
VARIABLES
    \* the process environment
    XLA_AVAILABLE,          \* the torch_xla import succeeded
    LOCAL_RANK,             \* os.environ LOCAL_RANK, "-1" when unset
    device_count,           \* torch.cuda.device_count()
    fetch_scheduler,        \* fetch_scheduler() returns a scheduler, not None
    other,                  \* a second Model instance: the means it wrote last
    \* attributes of the orchestrator
    train_loader, valid_loader, optimizer, scheduler,
    step_scheduler_after, step_scheduler_metric,
    current_epoch, current_train_step, current_valid_step,
    model_state, train_state, device, callback_runner,
    fp16, scaler, accumulation_steps, batch_index, metrics,
    using_tpu, local_rank, train_sampler, valid_sampler,
    \* the wrapped network
    weights, grad, training, model_device, wrapped,
    sampler_epoch,          \* the epoch last given to train_sampler.set_epoch
    \* the file system
    disk,
    \* the running call: its position and its locals
    pc, epochs, ep, b_idx, losses,
    \* history of the running (or last) call
    call, ncalls, nfits, trace, applied, err, stopped, epoch_first

host == <<XLA_AVAILABLE, LOCAL_RANK, device_count, fetch_scheduler>>
\* what no call on the orchestrator changes: the host and the other instance
env == <<host, other>>
attrs == <<train_loader, valid_loader, optimizer, scheduler,
           step_scheduler_after, step_scheduler_metric,
           current_epoch, current_train_step, current_valid_step,
           model_state, train_state, device, callback_runner,
           fp16, scaler, accumulation_steps, batch_index, metrics,
           using_tpu, local_rank, train_sampler, valid_sampler>>
net == <<weights, grad, training, model_device, wrapped, sampler_epoch>>
locals == <<pc, epochs, ep, b_idx, losses>>
hist == <<call, ncalls, nfits, trace, applied, err, stopped, epoch_first>>
\* what no step of the epoch loop changes
setup == <<train_loader, valid_loader, step_scheduler_after, step_scheduler_metric,
           device, callback_runner, fp16, scaler, accumulation_steps, using_tpu,
           local_rank, train_sampler, valid_sampler, model_device, wrapped, disk,
           epochs, call, ncalls, nfits>>
vars == <<env, attrs, net, disk, locals, hist>>

\* ------------------------------------------------------------------- enums
\* enums.ModelState values, as update_metrics and fit read them (.value)
ModelStates == {"train", "valid", "test", "end"}

\* enums.TrainingState members dispatched by this file
TrainingStates == {"TRAIN_START", "TRAIN_END", "EPOCH_START", "EPOCH_END",
                   "TRAIN_EPOCH_START", "TRAIN_EPOCH_END",
                   "VALID_EPOCH_START", "VALID_EPOCH_END",
                   "TRAIN_STEP_START", "TRAIN_STEP_END",
                   "VALID_STEP_START", "VALID_STEP_END"}

\* ------------------------------------------------------------ trace entries
\* trace is the sequence of calls the running fit has made into its
\* collaborators: events dispatched to the callback runner, collectives of
\* torch.distributed, set_epoch on the train sampler, optimizer and
\* scheduler steps.
Event(e) == e
Collective(c) == c
Collectives == {"init_process_group", "barrier", "all_gather"}
OptimizerSteps == {"scaler.step", "xm.optimizer_step", "optimizer.step"}

\* ------------------------------------------------------------ dictionaries
\* A dict is a set of <<key, value>> pairs with distinct keys.
Keys(d) == {p[1] : p \in d}
Get(d, k) == (CHOOSE p \in d : p[1] = k)[2]
Put(d, k, v) == {p \in d : p[1] # k} \cup {<<k, v>>}

\* ------------------------------------------------------------ running mean
\* tez.utils.AverageMeter: sum and count; avg is the quotient sum / count,
\* kept as the pair <<sum, count>>.  Every batch of a loader has the same
\* weight (data_loader.batch_size), which cancels in the quotient.
NewMeter == [sum |-> 0, count |-> 0]
MeterUpdate(m, v) == [sum |-> m.sum + v, count |-> m.count + 1]
MeterAvg(m) == <<m.sum, m.count>>

\* ------------------------------------------------------------- the network
\* model_fn: the loss of batch b under weights w (an opaque forward pass).
model_fn(w, b) == 1 + ((w + b) % 2)

\* ----------------------------------------------------------- pure decisions
\* fit, line 394 / load, line 293: the TPU is requested
RequestsTpu(dev) == dev = "tpu"

\* fit, line 402
IsCuda(dev) == dev \in {"cuda", "cuda:1"}

\* _init_tez, lines 326-327: the local n_jobs is bound only on this branch
NJobsBound(n_jobs) == n_jobs = -1

\* multiprocessing.cpu_count() of the modelled machine
CpuCount == 4

\* _init_tez, lines 326-327 and 353: the worker count the loaders are given
NumWorkers(n_jobs) == CpuCount

\* train_one_step, line 110: zero the gradients before the forward pass
ZeroBefore(b, k) == k = 1 /\ b = 0

\* train_one_step, line 120: this batch ends with an optimizer step
StepsOptimizer(b, k) == (b + 1) % k = 0

\* train_one_step, line 136: zero the gradients after the optimizer step
ZeroAfter(b, k) == b > 0

\* Mutant of ZeroAtEpochStart: the epoch starts without zeroing.
NeverZeroAtEpochStart(k) == FALSE

\* train_one_epoch, line 165: zero the gradients as the epoch starts
ZeroAtEpochStart(k) == k > 1

\* Mutant of BreaksLoop: the state is never tested.
NeverBreaks(ms) == FALSE

\* fit, line 438: the loop breaks after EPOCH_END
BreaksLoop(ms) == ms = "end"

\* fit, line 426: bool(DataLoader) is len(DataLoader) > 0
Truthy(loader) == ~IsNone(loader) /\ Val(loader).len > 0

\* name_to_metric, lines 79-80: split at the first underscore
SplitMetric(name) ==
    CASE name = "train_loss" -> <<"train", "loss">>
      [] name = "valid_loss" -> <<"valid", "loss">>
      [] name = "test_loss" -> <<"test", "loss">>
      [] OTHER -> <<name, "">>

\* name_to_metric: [ok, val]; ok is FALSE where the lookup raises KeyError.
\* The value is the pair <<sum, count>> of a mean, or <<n, 1>> for an epoch.
name_to_metric(name, m, epoch) ==
    IF name = "current_epoch" THEN [ok |-> TRUE, val |-> <<epoch, 1>>]
    ELSE LET v == SplitMetric(name)
         IN IF v[1] \in DOMAIN m /\ v[2] \in Keys(m[v[1]])
            THEN [ok |-> TRUE, val |-> Get(m[v[1]], v[2])]
            ELSE [ok |-> FALSE, val |-> <<0, 0>>]

\* Mutant of update_metrics: every epoch writes the train entry.
UpdateTrainEntry(m, state, meter) ==
    [ok |-> state \in DOMAIN m,
     metrics |-> [m EXCEPT !["train"] = Put(m["train"], "loss", MeterAvg(meter))]]

\* update_metrics, lines 151-153: [ok, metrics]; metrics[state] raises
\* KeyError for a state that is no key, and nothing is written.
update_metrics(m, state, meter) ==
    IF state \in DOMAIN m
    THEN [ok |-> TRUE,
          metrics |-> [m EXCEPT ![state] = Put(m[state], "loss", MeterAvg(meter))]]
    ELSE [ok |-> FALSE, metrics |-> m]

\* The scheduler step of train_one_step (129-135) and fit (430-436), taken
\* when step_scheduler_after = when: [ok, scheduler, log].
scheduler_step(sch, after, metric, when, m, epoch) ==
    IF IsNone(sch) \/ after # when
    THEN [ok |-> TRUE, scheduler |-> sch, log |-> <<>>]
    ELSE IF metric = "None"
    THEN [ok |-> TRUE, scheduler |-> Some(Val(sch) + 1), log |-> <<"scheduler.step">>]
    ELSE IF name_to_metric(metric, m, epoch).ok
    THEN [ok |-> TRUE, scheduler |-> Some(Val(sch) + 1), log |-> <<"scheduler.step">>]
    ELSE [ok |-> FALSE, scheduler |-> sch, log |-> <<>>]

\* The train_state setter, lines 70-74: the event reaches the callback runner
\* when one is set.
Dispatch(runner, e) == IF runner THEN <<Event(e)>> ELSE <<>>

\* ------------------------------------------------------------ construction
\* The class attributes of Model, lines 29-55.
InitModel ==
    /\ train_loader = None /\ valid_loader = None
    /\ optimizer = None /\ scheduler = None
    /\ current_epoch = 0 /\ current_train_step = 0 /\ current_valid_step = 0
    /\ model_state = "None" /\ train_state = "None" /\ device = "None"
    /\ callback_runner = FALSE
    /\ fp16 = FALSE /\ scaler = FALSE
    /\ accumulation_steps = 0 /\ batch_index = 0
    /\ metrics = [train |-> {}, valid |-> {}, test |-> {}]
    /\ using_tpu = FALSE /\ local_rank = -1
    /\ train_sampler = None /\ valid_sampler = None
    /\ weights = 0 /\ grad = <<>> /\ training = TRUE
    /\ model_device = "cpu" /\ wrapped = 0 /\ sampler_epoch = 0
    /\ disk = None
    /\ other = [train |-> None, valid |-> None, epochs |-> 0]
    /\ pc = "idle" /\ epochs = 0 /\ ep = 0 /\ b_idx = 0 /\ losses = NewMeter
    /\ call = [op |-> "new", device |-> "None", weights_only |-> FALSE, n_jobs |-> 0, train_dataset |-> 0]
    /\ ncalls = 0 /\ nfits = 0 /\ trace = <<>> /\ applied = <<>> /\ err = "none"
    /\ stopped = FALSE /\ epoch_first = 0

\* -------------------------------------------------------------- callbacks
\* What a callback may do while an event is dispatched: nothing, or ask for
\* the end of training by setting model_state to ModelState.END (the value
\* fit tests at line 438).  stop is the callback's choice.
AfterCallback(ms, stop) == IF stop THEN "end" ELSE ms

\* ---------------------------------------------------------------- fit, 1
\* The arguments of a fit call: args.device, args.fp16, args.n_jobs,
\* args.epochs, args.accumulation_steps, the number of batches of
\* train_dataset, the number of batches of valid_dataset (None: no
\* valid_dataset) and train_sampler.
FitArgs(devices, jobs, fp16s, trains, valids, accums) ==
    [device : devices, fp16 : fp16s, n_jobs : jobs,
     epochs : 0..MaxEpochs, accumulation_steps : accums,
     train_dataset : trains, valid_dataset : valids,
     train_sampler : {None}]

\* train_one_epoch, lines 156-161: set_epoch on the train sampler and the
\* barrier, when distributed
TrainEpochCollectives(rank) ==
    IF rank # -1 THEN <<"set_epoch", Collective("barrier")>> ELSE <<>>

\* Mutant of ValidStepCollectives: the all_gather runs without its barrier.
GatherWithoutBarrier(rank) ==
    IF rank # -1 THEN <<Collective("all_gather")>> ELSE <<>>

\* validate_one_epoch, lines 206-209: barrier and all_gather, when distributed
ValidStepCollectives(rank) ==
    IF rank # -1 THEN <<Collective("barrier"), Collective("all_gather")>> ELSE <<>>

\* _init_tez, lines 332-336: init_process_group, when distributed
InitCollectives(rank) ==
    IF rank # -1 THEN <<Collective("init_process_group")>> ELSE <<>>

\* fit, lines 394-408: the device of the call
SelectDevice(dev, rank) ==
    IF RequestsTpu(dev) THEN "xla"
    ELSE IF IsCuda(dev) THEN (IF rank = -1 THEN dev ELSE "cuda:rank")
    ELSE "cpu"

\* Mutant of XlaMissing: the availability of XLA is not tested.
XlaAssumed(dev, xla) == FALSE

\* fit, lines 394-396: the call raises RuntimeError("XLA is not available")
XlaMissing(dev, xla) == RequestsTpu(dev) /\ ~xla

\* The data loader _init_tez builds from a dataset, lines 350-357 / 360-367:
\* its length, the call that built it, and the sampler handed to DataLoader.
BuildLoader(n, by, sampler, n_jobs) ==
    Some([len |-> n, src |-> by, sampler |-> sampler, num_workers |-> NumWorkers(n_jobs)])

\* fit, lines 393-420, with _init_tez, lines 320-380, up to the dispatch of
\* TRAIN_START.  The call ends early with RuntimeError when the TPU is
\* requested without XLA, and with UnboundLocalError when a loader is built
\* (lines 353, 363) while the local n_jobs was never bound (line 326).
Fit(a, stop) ==
    /\ pc = "idle" /\ ncalls < MaxCalls /\ nfits < MaxFits
    /\ current_epoch + a.epochs <= MaxEpochs
    /\ LET rank == LOCAL_RANK
           noxla == XlaMissing(a.device, XLA_AVAILABLE)
           tpu == RequestsTpu(a.device)
           args_fp16 == IF tpu THEN FALSE ELSE a.fp16
           wraps == rank # -1 \/ device_count > 1
           needs_train == IsNone(train_loader)
           needs_valid == IsNone(valid_loader) /\ ~IsNone(a.valid_dataset)
           unbound == ~NJobsBound(a.n_jobs) /\ (needs_train \/ needs_valid)
           ok == ~noxla /\ ~unbound
           sampler == IF rank # -1 /\ IsNone(a.train_sampler)
                      THEN Some("DistributedSampler") ELSE a.train_sampler
       IN
       /\ stop => ok
       /\ call' = [op |-> "fit", device |-> a.device, weights_only |-> FALSE,
                  n_jobs |-> a.n_jobs, train_dataset |-> a.train_dataset]
       /\ ncalls' = ncalls + 1
       /\ nfits' = nfits + 1
       /\ local_rank' = rank
       /\ err' = IF noxla THEN "RuntimeError"
                 ELSE IF unbound THEN "UnboundLocalError" ELSE "none"
       /\ using_tpu' = IF ~noxla /\ tpu THEN TRUE ELSE using_tpu
       /\ device' = IF noxla THEN device ELSE SelectDevice(a.device, rank)
       /\ model_device' = IF noxla THEN model_device ELSE SelectDevice(a.device, rank)
       /\ train_sampler' = IF noxla THEN train_sampler ELSE sampler
       /\ valid_sampler' = IF noxla THEN valid_sampler ELSE None
       /\ accumulation_steps' = IF noxla THEN accumulation_steps ELSE a.accumulation_steps
       /\ wrapped' = IF ~noxla /\ wraps THEN wrapped + 1 ELSE wrapped
       /\ train_loader' = IF ok /\ needs_train
                          THEN BuildLoader(a.train_dataset, ncalls + 1, a.train_sampler, a.n_jobs)
                          ELSE train_loader
       /\ valid_loader' = IF ok /\ needs_valid
                          THEN BuildLoader(Val(a.valid_dataset), ncalls + 1, None, a.n_jobs)
                          ELSE valid_loader
       /\ optimizer' = IF ok /\ IsNone(optimizer) THEN Some(0) ELSE optimizer
       /\ scheduler' = IF ok /\ IsNone(scheduler) /\ fetch_scheduler
                       THEN Some(0) ELSE scheduler
       /\ fp16' = IF ok THEN args_fp16 ELSE fp16
       /\ scaler' = IF ok /\ args_fp16 THEN TRUE ELSE scaler
       /\ callback_runner' = IF ok THEN TRUE ELSE callback_runner
       /\ train_state' = IF ok THEN "TRAIN_START" ELSE train_state
       /\ model_state' = IF ok THEN AfterCallback(model_state, stop) ELSE model_state
       /\ trace' = IF noxla THEN <<>>
                   ELSE InitCollectives(rank)
                        \o (IF ok THEN Dispatch(TRUE, "TRAIN_START") ELSE <<>>)
       /\ applied' = <<>>
       /\ stopped' = stop
       /\ epochs' = a.epochs
       /\ ep' = IF ok THEN 0 ELSE ep
       /\ pc' = IF ~ok THEN "idle" ELSE IF a.epochs = 0 THEN "train_end" ELSE "loop"
    /\ UNCHANGED <<env, step_scheduler_after, step_scheduler_metric,
                   current_epoch, current_train_step, current_valid_step,
                   batch_index, metrics, weights, grad, training, disk,
                   sampler_epoch, b_idx, losses, epoch_first>>

\* ---------------------------------------------------------------- fit, 2
\* fit, line 422: the loop body starts and dispatches EPOCH_START.
EpochStart(stop) ==
    /\ pc = "loop"
    /\ trace' = trace \o Dispatch(callback_runner, "EPOCH_START")
    /\ train_state' = "EPOCH_START"
    /\ model_state' = AfterCallback(model_state, stop)
    /\ stopped' = (stopped \/ stop)
    /\ pc' = "epoch"
    /\ UNCHANGED <<env, setup, sampler_epoch, optimizer, scheduler, current_epoch,
                   current_train_step, current_valid_step, batch_index, metrics,
                   weights, grad, training, ep, b_idx, losses, applied, err,
                   epoch_first>>

\* fit, line 423, and train_one_epoch, lines 156-171, up to the first batch:
\* TRAIN_EPOCH_START, set_epoch and barrier when distributed, train mode,
\* model_state TRAIN, a fresh loss meter, zero_grad when accumulating.  With
\* an empty loader the loop body never runs and line 190 reads the unbound
\* local monitor.
TrainEpochStart(stop) ==
    /\ pc = "epoch"
    /\ LET n == Val(train_loader).len
           dist == TrainEpochCollectives(local_rank)
       IN
       /\ trace' = trace \o Dispatch(callback_runner, "TRAIN_EPOCH_START") \o dist
       /\ pc' = IF n = 0 THEN "idle" ELSE "train_step"
       /\ err' = IF n = 0 THEN "UnboundLocalError" ELSE err
    /\ train_state' = "TRAIN_EPOCH_START"
    /\ training' = TRUE
    /\ model_state' = "train"
    /\ stopped' = (stopped \/ stop)
    /\ losses' = NewMeter
    /\ grad' = IF ZeroAtEpochStart(accumulation_steps) THEN <<>> ELSE grad
    /\ epoch_first' = current_train_step
    /\ sampler_epoch' = IF local_rank # -1 THEN current_epoch ELSE sampler_epoch
    /\ b_idx' = 0
    /\ UNCHANGED <<env, setup, optimizer, scheduler, current_epoch,
                   current_train_step, current_valid_step, batch_index, metrics,
                   weights, ep, applied>>

\* train_one_epoch, lines 172-173: batch_index and TRAIN_STEP_START.
TrainStepStart(stop) ==
    /\ pc = "train_step"
    /\ batch_index' = b_idx
    /\ trace' = trace \o Dispatch(callback_runner, "TRAIN_STEP_START")
    /\ train_state' = "TRAIN_STEP_START"
    /\ model_state' = AfterCallback(model_state, stop)
    /\ stopped' = (stopped \/ stop)
    /\ pc' = "train_run"
    /\ UNCHANGED <<env, setup, sampler_epoch, optimizer, scheduler, current_epoch,
                   current_train_step, current_valid_step, metrics,
                   weights, grad, training, ep, b_idx, losses, applied, err,
                   epoch_first>>

\* train_one_step, lines 109-138: what the step does to the gradient buffer
\* g when batch id is batch b of the epoch.  The backward pass adds the
\* batch to the buffer; [applied, grad] are the buffer the optimizer step
\* applies (None when the batch ends without a step) and the buffer left.
Accumulate(g, id, b, k) ==
    LET g0 == IF ZeroBefore(b, k) THEN <<>> ELSE g
        g1 == Append(g0, id)
    IN IF StepsOptimizer(b, k)
       THEN [applied |-> Some(g1), grad |-> IF ZeroAfter(b, k) THEN <<>> ELSE g1]
       ELSE [applied |-> None, grad |-> g1]

\* train_one_step, lines 121-128: which call steps the optimizer
StepPath(f16, tpu) == IF f16 THEN "scaler.step" ELSE IF tpu THEN "xm.optimizer_step" ELSE "optimizer.step"

\* train_one_epoch, lines 174-183: train_one_step (lines 109-138), then
\* TRAIN_STEP_END, the loss meter and current_train_step.  A scheduler step
\* whose metric lookup raises KeyError (line 134) ends the call after the
\* optimizer step and before the gradients are zeroed.
TrainStepEnd(stop) ==
    /\ pc = "train_run"
    /\ LET b == batch_index
           k == accumulation_steps
           id == current_train_step
           acc == Accumulate(grad, id, b, k)
           steps == ~IsNone(acc.applied)
           sch == IF steps
                  THEN scheduler_step(scheduler, step_scheduler_after,
                                      step_scheduler_metric, "batch", metrics, current_epoch)
                  ELSE [ok |-> TRUE, scheduler |-> scheduler, log |-> <<>>]
           last == b_idx + 1 = Val(train_loader).len
       IN
       /\ stop => sch.ok
       /\ weights' = IF steps THEN weights + 1 ELSE weights
       /\ optimizer' = IF steps THEN Some(Val(optimizer) + 1) ELSE optimizer
       /\ applied' = IF steps
                     THEN Append(applied, [b |-> b, first |-> epoch_first, grads |-> Val(acc.applied)])
                     ELSE applied
       /\ scheduler' = sch.scheduler
       /\ grad' = IF sch.ok THEN acc.grad ELSE Append(IF ZeroBefore(b, k) THEN <<>> ELSE grad, id)
       /\ trace' = trace \o (IF steps THEN <<StepPath(fp16, using_tpu)>> ELSE <<>>)
                         \o sch.log
                         \o (IF sch.ok THEN Dispatch(callback_runner, "TRAIN_STEP_END") ELSE <<>>)
       /\ train_state' = IF sch.ok THEN "TRAIN_STEP_END" ELSE train_state
       /\ model_state' = AfterCallback(model_state, stop)
       /\ losses' = IF sch.ok THEN MeterUpdate(losses, model_fn(weights, b)) ELSE losses
       /\ current_train_step' = IF sch.ok THEN current_train_step + 1 ELSE current_train_step
       /\ b_idx' = IF sch.ok THEN b_idx + 1 ELSE b_idx
       /\ err' = IF sch.ok THEN err ELSE "KeyError"
       /\ pc' = IF ~sch.ok THEN "idle" ELSE IF last THEN "train_done" ELSE "train_step"
    /\ stopped' = (stopped \/ stop)
    /\ UNCHANGED <<env, setup, sampler_epoch, current_epoch, current_valid_step, batch_index,
                   metrics, training, ep, epoch_first>>

\* train_one_epoch, lines 188-192, and fit, lines 425-426: update_metrics
\* under the key model_state.value, then TRAIN_EPOCH_END.
TrainEpochEnd(stop) ==
    /\ pc = "train_done"
    /\ LET um == update_metrics(metrics, model_state, losses)
       IN
       /\ stop => um.ok
       /\ metrics' = um.metrics
       /\ err' = IF um.ok THEN err ELSE "KeyError"
       /\ trace' = trace \o (IF um.ok THEN Dispatch(callback_runner, "TRAIN_EPOCH_END") ELSE <<>>)
       /\ train_state' = IF um.ok THEN "TRAIN_EPOCH_END" ELSE train_state
       /\ pc' = IF ~um.ok THEN "idle"
                ELSE IF Truthy(valid_loader) THEN "valid" ELSE "epoch_end"
    /\ model_state' = AfterCallback(model_state, stop)
    /\ stopped' = (stopped \/ stop)
    /\ UNCHANGED <<env, setup, sampler_epoch, optimizer, scheduler, current_epoch,
                   current_train_step, current_valid_step, batch_index,
                   weights, grad, training, ep, b_idx, losses, applied,
                   epoch_first>>

\* fit, line 427, and validate_one_epoch, lines 195-201: VALID_EPOCH_START,
\* evaluation mode, model_state VALID, a fresh loss meter.
ValidEpochStart(stop) ==
    /\ pc = "valid"
    /\ trace' = trace \o Dispatch(callback_runner, "VALID_EPOCH_START")
    /\ train_state' = "VALID_EPOCH_START"
    /\ training' = FALSE
    /\ model_state' = "valid"
    /\ stopped' = (stopped \/ stop)
    /\ losses' = NewMeter
    /\ b_idx' = 0
    /\ pc' = "valid_step"
    /\ UNCHANGED <<env, setup, sampler_epoch, optimizer, scheduler, current_epoch,
                   current_train_step, current_valid_step, batch_index, metrics,
                   weights, grad, ep, applied, err, epoch_first>>

\* validate_one_epoch, line 203: VALID_STEP_START.
ValidStepStart(stop) ==
    /\ pc = "valid_step"
    /\ trace' = trace \o Dispatch(callback_runner, "VALID_STEP_START")
    /\ train_state' = "VALID_STEP_START"
    /\ model_state' = AfterCallback(model_state, stop)
    /\ stopped' = (stopped \/ stop)
    /\ pc' = "valid_run"
    /\ UNCHANGED <<env, setup, sampler_epoch, optimizer, scheduler, current_epoch,
                   current_train_step, current_valid_step, batch_index, metrics,
                   weights, grad, training, ep, b_idx, losses, applied, err,
                   epoch_first>>

\* Mutant of validate_one_step: the validation step runs a backward pass.
ValidateAndBackward(g, w, b) == [loss |-> model_fn(w, b), grad |-> Append(g, b)]

\* validate_one_step, lines 140-145, under torch.no_grad (line 204): a
\* forward pass only.  [loss, grad]: the loss of batch b and the gradient
\* buffer g as the step leaves it.
validate_one_step(g, w, b) == [loss |-> model_fn(w, b), grad |-> g]

\* validate_one_epoch, lines 204-222: validate_one_step under no_grad, the
\* barrier and all_gather when distributed, VALID_STEP_END, the loss meter
\* and current_valid_step.
ValidStepEnd(stop) ==
    /\ pc = "valid_run"
    /\ LET dist == ValidStepCollectives(local_rank)
           last == b_idx + 1 = Val(valid_loader).len
       IN
       /\ trace' = trace \o dist \o Dispatch(callback_runner, "VALID_STEP_END")
       /\ pc' = IF last THEN "valid_done" ELSE "valid_step"
    /\ train_state' = "VALID_STEP_END"
    /\ model_state' = AfterCallback(model_state, stop)
    /\ stopped' = (stopped \/ stop)
    /\ LET vs == validate_one_step(grad, weights, b_idx)
       IN losses' = MeterUpdate(losses, vs.loss) /\ grad' = vs.grad
    /\ current_valid_step' = current_valid_step + 1
    /\ b_idx' = b_idx + 1
    /\ UNCHANGED <<env, setup, sampler_epoch, optimizer, scheduler, current_epoch,
                   current_train_step, batch_index, metrics,
                   weights, training, ep, applied, err, epoch_first>>

\* validate_one_epoch, lines 223-226, and fit, line 429: update_metrics
\* under the key model_state.value, then VALID_EPOCH_END.
ValidEpochEnd(stop) ==
    /\ pc = "valid_done"
    /\ LET um == update_metrics(metrics, model_state, losses)
       IN
       /\ stop => um.ok
       /\ metrics' = um.metrics
       /\ err' = IF um.ok THEN err ELSE "KeyError"
       /\ trace' = trace \o (IF um.ok THEN Dispatch(callback_runner, "VALID_EPOCH_END") ELSE <<>>)
       /\ train_state' = IF um.ok THEN "VALID_EPOCH_END" ELSE train_state
       /\ pc' = IF um.ok THEN "epoch_end" ELSE "idle"
    /\ model_state' = AfterCallback(model_state, stop)
    /\ stopped' = (stopped \/ stop)
    /\ UNCHANGED <<env, setup, sampler_epoch, optimizer, scheduler, current_epoch,
                   current_train_step, current_valid_step, batch_index,
                   weights, grad, training, ep, b_idx, losses, applied,
                   epoch_first>>

\* fit, lines 430-440: the scheduler step after the epoch, EPOCH_END, the
\* test of model_state and the increment of current_epoch.
EpochEnd(stop) ==
    /\ pc = "epoch_end"
    /\ LET sch == scheduler_step(scheduler, step_scheduler_after,
                                 step_scheduler_metric, "epoch", metrics, current_epoch)
           ms == AfterCallback(model_state, stop)
           brk == BreaksLoop(ms)
       IN
       /\ stop => sch.ok
       /\ scheduler' = sch.scheduler
       /\ err' = IF sch.ok THEN err ELSE "KeyError"
       /\ trace' = trace \o sch.log
                         \o (IF sch.ok THEN Dispatch(callback_runner, "EPOCH_END") ELSE <<>>)
       /\ train_state' = IF sch.ok THEN "EPOCH_END" ELSE train_state
       /\ model_state' = ms
       /\ current_epoch' = IF sch.ok /\ ~brk THEN current_epoch + 1 ELSE current_epoch
       /\ ep' = IF sch.ok /\ ~brk THEN ep + 1 ELSE ep
       /\ pc' = IF ~sch.ok THEN "idle"
                ELSE IF brk \/ ep + 1 = epochs THEN "train_end" ELSE "loop"
    /\ stopped' = (stopped \/ stop)
    /\ UNCHANGED <<env, setup, sampler_epoch, optimizer, current_train_step, current_valid_step,
                   batch_index, metrics, weights, grad, training, b_idx, losses,
                   applied, epoch_first>>

\* fit, line 441: TRAIN_END, and the call returns.
TrainEnd(stop) ==
    /\ pc = "train_end"
    /\ trace' = trace \o Dispatch(callback_runner, "TRAIN_END")
    /\ train_state' = "TRAIN_END"
    /\ model_state' = AfterCallback(model_state, stop)
    /\ stopped' = (stopped \/ stop)
    /\ pc' = "idle"
    /\ UNCHANGED <<env, setup, sampler_epoch, optimizer, scheduler, current_epoch,
                   current_train_step, current_valid_step, batch_index, metrics,
                   weights, grad, training, ep, b_idx, losses, applied, err,
                   epoch_first>>

\* ------------------------------------------------------------ save and load
\* model.state_dict(): the weights, under keys that carry one "module."
\* prefix per wrapper around the network.
state_dict(w, wraps) == [params |-> w, prefix |-> wraps]

\* Mutant of Checkpoint: the epoch saved is the next one.
CheckpointNextEpoch(sd, opt, sch, epoch, f16) ==
    [state_dict |-> sd, optimizer |-> opt, scheduler |-> sch, epoch |-> epoch + 1, fp16 |-> f16]

\* save, lines 281-286: the record of a full checkpoint
Checkpoint(sd, opt, sch, epoch, f16) ==
    [state_dict |-> sd, optimizer |-> opt, scheduler |-> sch, epoch |-> epoch, fp16 |-> f16]

\* save, lines 265-290: what is written to model_path
SavedFile(weights_only, sd, opt, sch, epoch, f16) ==
    IF weights_only THEN sd ELSE Checkpoint(sd, opt, sch, epoch, f16)

\* save, lines 265-290.
Save(weights_only) ==
    /\ pc = "idle" /\ ncalls < MaxCalls
    /\ call' = [op |-> "save", device |-> "None", weights_only |-> weights_only,
             n_jobs |-> 0, train_dataset |-> 0]
    /\ ncalls' = ncalls + 1
    /\ err' = "none"
    /\ disk' = Some(SavedFile(weights_only, state_dict(weights, wrapped),
                              optimizer, scheduler, current_epoch, fp16))
    /\ UNCHANGED <<env, attrs, net, locals, nfits, trace, applied, stopped, epoch_first>>

\* load, lines 303-306: the state dict load_state_dict is given; None where
\* the subscript of line 306 raises KeyError.
LoadedStateDict(file, weights_only) ==
    IF weights_only THEN Some(file)
    ELSE IF "state_dict" \in DOMAIN file THEN Some(file.state_dict) ELSE None

\* load_state_dict (strict): the keys of the given mapping are those of the
\* network.
KeysMatch(sd, wraps) == DOMAIN sd = {"params", "prefix"} /\ sd.prefix = wraps

\* load, lines 292-306.  RuntimeError when the TPU is requested without XLA;
\* FileNotFoundError from torch.load when nothing was saved; KeyError or
\* load_state_dict's RuntimeError when the file is not of the kind asked for.
Load(weights_only, dev) ==
    /\ pc = "idle" /\ ncalls < MaxCalls
    /\ LET noxla == XlaMissing(dev, XLA_AVAILABLE)
           d == IF RequestsTpu(dev) THEN "xla" ELSE dev
           sd == IF IsNone(disk) THEN None ELSE LoadedStateDict(Val(disk), weights_only)
           loads == ~noxla /\ ~IsNone(sd) /\ KeysMatch(Val(sd), wrapped)
       IN
       /\ call' = [op |-> "load", device |-> dev, weights_only |-> weights_only,
                  n_jobs |-> 0, train_dataset |-> 0]
       /\ ncalls' = ncalls + 1
       /\ err' = IF noxla THEN "RuntimeError"
                 ELSE IF IsNone(disk) THEN "FileNotFoundError"
                 ELSE IF IsNone(sd) THEN "KeyError"
                 ELSE IF ~KeysMatch(Val(sd), wrapped) THEN "RuntimeError: load_state_dict"
                 ELSE "none"
       /\ using_tpu' = IF ~noxla /\ RequestsTpu(dev) THEN TRUE ELSE using_tpu
       /\ device' = IF noxla THEN device ELSE d
       /\ model_device' = IF noxla THEN model_device ELSE d
       /\ weights' = IF loads THEN Val(sd).params ELSE weights
    /\ UNCHANGED <<env, train_loader, valid_loader, optimizer, scheduler,
                   step_scheduler_after, step_scheduler_metric,
                   current_epoch, current_train_step, current_valid_step,
                   model_state, train_state, callback_runner,
                   fp16, scaler, accumulation_steps, batch_index, metrics,
                   local_rank, train_sampler, valid_sampler,
                   grad, training, wrapped, sampler_epoch, disk, locals,
                   nfits, trace, applied, stopped, epoch_first>>

\* ----------------------------------------------------------- specifications
\* The steps of a running fit call; stop is what the callbacks do with the
\* event the step dispatches.
FitStep(stops) ==
    \E stop \in stops :
        \/ EpochStart(stop)
        \/ TrainEpochStart(stop)
        \/ TrainStepStart(stop)
        \/ TrainStepEnd(stop)
        \/ TrainEpochEnd(stop)
        \/ ValidEpochStart(stop)
        \/ ValidStepStart(stop)
        \/ ValidStepEnd(stop)
        \/ ValidEpochEnd(stop)
        \/ EpochEnd(stop)
        \/ TrainEnd(stop)

TrainDatasets == 0..MaxBatches
ValidDatasets == {None} \cup {Some(n) : n \in 0..MaxValid}
AccumulationSteps == 1..MaxAccum

\* <<fetch_scheduler, step_scheduler_after, step_scheduler_metric>>
SchedulerConfigs ==
    {<<FALSE, "None", "None">>, <<TRUE, "batch", "None">>}

\* Spec: one process, not distributed, one GPU, full precision; fit calls
\* with every worker count, epoch count, accumulation_steps and dataset size
\* within the bounds, and callbacks that may ask to stop at any event.
Init ==
    /\ InitModel
    /\ XLA_AVAILABLE = FALSE /\ LOCAL_RANK = -1 /\ device_count = 1
    /\ \E c \in SchedulerConfigs :
           fetch_scheduler = c[1] /\ step_scheduler_after = c[2] /\ step_scheduler_metric = c[3]

Next ==
    \/ \E a \in FitArgs({"cuda"}, {-1, 2}, {FALSE}, TrainDatasets, ValidDatasets, AccumulationSteps),
          stop \in BOOLEAN : Fit(a, stop)
    \/ FitStep(BOOLEAN)

Spec == Init /\ [][Next]_vars

\* SpecIO: save and load between fit calls, on one or two GPUs, with the TPU
\* requested with and without XLA; callbacks that never ask to stop.
InitIO ==
    /\ InitModel
    /\ XLA_AVAILABLE \in BOOLEAN /\ LOCAL_RANK = -1 /\ device_count \in {1, 2}
    /\ \E c \in {<<FALSE, "None", "None">>, <<TRUE, "epoch", "None">>} :
           fetch_scheduler = c[1] /\ step_scheduler_after = c[2] /\ step_scheduler_metric = c[3]

NextIO ==
    \/ \E a \in FitArgs({"cuda", "tpu"}, {-1}, BOOLEAN, {MaxBatches}, {None, Some(MaxValid)}, {1}),
          stop \in {FALSE} : Fit(a, stop)
    \/ FitStep({FALSE})
    \/ \E weights_only \in BOOLEAN : Save(weights_only)
    \/ \E weights_only \in BOOLEAN, dev \in {"cuda", "tpu"} : Load(weights_only, dev)

SpecIO == InitIO /\ [][NextIO]_vars

\* SpecDist: fit calls with and without LOCAL_RANK in the environment.
InitDist ==
    /\ InitModel
    /\ XLA_AVAILABLE = FALSE /\ LOCAL_RANK \in {-1, 0} /\ device_count = 1
    /\ fetch_scheduler = FALSE /\ step_scheduler_after = "None" /\ step_scheduler_metric = "None"

NextDist ==
    \/ \E a \in FitArgs({"cuda", "tpu"}, {-1, 2}, {FALSE}, TrainDatasets, ValidDatasets, AccumulationSteps),
          stop \in BOOLEAN : Fit(a, stop)
    \/ FitStep(BOOLEAN)

SpecDist == InitDist /\ [][NextDist]_vars

\* ------------------------------------------------------- reading the trace
Range(f) == {f[i] : i \in DOMAIN f}
IsEvent(e) == e \in TrainingStates
Events(tr) == SelectSeq(tr, IsEvent)
Count(tr, x) == Cardinality({i \in DOMAIN tr : tr[i] = x})
CountIn(tr, xs) == Cardinality({i \in DOMAIN tr : tr[i] \in xs})

RECURSIVE Repeat(_, _)
Repeat(seq, n) == IF n = 0 THEN <<>> ELSE seq \o Repeat(seq, n - 1)

\* The events of one epoch with n training batches and, when valid, m
\* validation batches.
EpochEvents(n, valid, m) ==
    <<"EPOCH_START", "TRAIN_EPOCH_START">>
    \o Repeat(<<"TRAIN_STEP_START", "TRAIN_STEP_END">>, n)
    \o <<"TRAIN_EPOCH_END">>
    \o (IF valid
        THEN <<"VALID_EPOCH_START">> \o Repeat(<<"VALID_STEP_START", "VALID_STEP_END">>, m)
             \o <<"VALID_EPOCH_END">>
        ELSE <<>>)
    \o <<"EPOCH_END">>

FitEvents(e, n, valid, m) ==
    <<"TRAIN_START">> \o Repeat(EpochEvents(n, valid, m), e) \o <<"TRAIN_END">>

\* The fit call has ended: it returned or raised.
FitEnded == pc = "idle" /\ call.op = "fit"
FitReturned == FitEnded /\ err = "none"

\* The training batches of the call: those of the loader, or of the dataset
\* given when no loader was built.
TrainBatches == IF IsNone(train_loader) THEN call.train_dataset ELSE Val(train_loader).len
ValidBatches == IF IsNone(valid_loader) THEN 0 ELSE Val(valid_loader).len

\* ------------------------------------------------------------------ claims
\* C1: every fit call with E >= 0 epochs, N >= 1 training batches and no
\* early stop dispatches exactly TRAIN_START, then per epoch EPOCH_START,
\* TRAIN_EPOCH_START, N pairs of TRAIN_STEP_START and TRAIN_STEP_END,
\* TRAIN_EPOCH_END, the validation events when there is a validation loader,
\* EPOCH_END, and TRAIN_END last.
C1_EventSequence ==
    (FitEnded /\ ~stopped /\ TrainBatches >= 1)
        => Events(trace) = FitEvents(epochs, TrainBatches, Truthy(valid_loader), ValidBatches)

\* The sequence of C1 for the calls that return, and a prefix of it while a
\* call runs.
IsPrefix(p, q) == Len(p) <= Len(q) /\ SubSeq(q, 1, Len(p)) = p

ReturnedEventSequence ==
    /\ (FitReturned /\ ~stopped)
           => Events(trace) = FitEvents(epochs, TrainBatches, Truthy(valid_loader), ValidBatches)
    /\ (pc # "idle" /\ ~stopped)
           => IsPrefix(Events(trace), FitEvents(epochs, TrainBatches, Truthy(valid_loader), ValidBatches))

\* C2: the gradient every optimizer step applies is the sum over exactly the
\* accumulation_steps most recent batches, and no batch is in two steps.
LastK(g, k) == Len(g) = k /\ \A j \in 1..Len(g) : g[j] = g[Len(g)] - Len(g) + j

C2_AppliedLastK ==
    /\ \A i \in DOMAIN applied : LastK(applied[i].grads, accumulation_steps)
    /\ \A i, j \in DOMAIN applied :
           i # j => Range(applied[i].grads) \cap Range(applied[j].grads) = {}

\* C8: fit accepts every worker count: initialization completes, TRAIN_START
\* is dispatched, and the loaders the call builds use the CPU count for
\* n_jobs = -1 and n_jobs itself otherwise.
WorkersAsked(n_jobs) == IF n_jobs = -1 THEN CpuCount ELSE n_jobs

C8_WorkerCountAccepted ==
    call.op = "fit"
        => /\ Len(trace) >= 1 /\ trace[1] = "TRAIN_START"
           /\ \A l \in {train_loader, valid_loader} :
                  (~IsNone(l) /\ Val(l).src = ncalls)
                      => Val(l).num_workers = WorkersAsked(call.n_jobs)

\* C10: in a training epoch of N batches the optimizer is stepped after
\* exactly the batches b with (b + 1) mod accumulation_steps = 0, floor(N /
\* accumulation_steps) times in all, and every step of an epoch applies
\* gradients of batches of that epoch only.
EpochStartAt(i) ==
    LET starts == {s \in 1..i : trace[s] = "TRAIN_EPOCH_START"}
    IN CHOOSE s \in starts : \A t \in starts : t <= s

\* the batches of the epoch completed before position i of the trace
BatchesBefore(i) ==
    Cardinality({j \in EpochStartAt(i)..(i - 1) : trace[j] = "TRAIN_STEP_END"})

OptimizerStepsUpTo(i) ==
    Cardinality({j \in EpochStartAt(i)..i : trace[j] \in OptimizerSteps})

SteppedJustBefore(i) ==
    \/ trace[i - 1] \in OptimizerSteps
    \/ trace[i - 1] = "scheduler.step" /\ trace[i - 2] \in OptimizerSteps

C10_StepsPerEpoch ==
    /\ \A i \in DOMAIN trace :
           /\ trace[i] \in OptimizerSteps
                  => /\ (BatchesBefore(i) + 1) % accumulation_steps = 0
                     /\ trace[i - 1] = "TRAIN_STEP_START"
           /\ trace[i] = "TRAIN_STEP_END"
                  => (SteppedJustBefore(i) <=> (BatchesBefore(i) + 1) % accumulation_steps = 0)
           /\ trace[i] = "TRAIN_EPOCH_END"
                  => OptimizerStepsUpTo(i) = TrainBatches \div accumulation_steps
    /\ Len(applied) = CountIn(trace, OptimizerSteps)
    /\ \A i \in DOMAIN applied :
           \A id \in Range(applied[i].grads) : id >= applied[i].first

\* C10 witness: an epoch whose batches are not a multiple of
\* accumulation_steps has ended and a later epoch of the call has stepped the
\* optimizer.
C10_Witness ==
    /\ accumulation_steps = 2 /\ TrainBatches = 3
    /\ ep = 1 /\ pc = "train_done"
    /\ \E i \in DOMAIN applied : applied[i].first > 0

\* C7: metrics always has exactly the entries train, valid and test; a
\* training epoch that completes writes its mean loss over its batches into
\* the train entry and nothing else, a validation epoch that completes
\* writes its mean loss into the valid entry and nothing else.
TrainEpochCompletes == pc = "train_done" /\ pc' \in {"valid", "epoch_end"}
ValidEpochCompletes == pc = "valid_done" /\ pc' = "epoch_end"

C7_MetricsEntries ==
    /\ [](DOMAIN metrics = {"train", "valid", "test"})
    /\ [][TrainEpochCompletes =>
              /\ losses.count = Val(train_loader).len
              /\ metrics' = [metrics EXCEPT !["train"] = Put(@, "loss", MeterAvg(losses))]]_vars
    /\ [][ValidEpochCompletes =>
              /\ losses.count = Val(valid_loader).len
              /\ metrics' = [metrics EXCEPT !["valid"] = Put(@, "loss", MeterAvg(losses))]]_vars
    /\ [][(~TrainEpochCompletes /\ ~ValidEpochCompletes) => metrics' = metrics]_vars

\* C7 witness: a training epoch and a validation epoch have both completed
\* and written different means.
C7_Witness ==
    /\ metrics["train"] # {} /\ metrics["valid"] # {}
    /\ metrics["train"] # metrics["valid"]
    /\ metrics["test"] = {}

\* C9: when model_state is END as the dispatch of EPOCH_END returns, fit
\* starts no further epoch, leaves current_epoch as it is and dispatches
\* TRAIN_END once; otherwise current_epoch grows by one and the next epoch,
\* if any, starts.
EpochEndReturns == pc = "epoch_end" /\ pc' # "idle"

C9_EarlyStop ==
    /\ [][EpochEndReturns =>
              /\ trace'[Len(trace')] = "EPOCH_END"
              /\ IF model_state' = "end"
                 THEN pc' = "train_end" /\ current_epoch' = current_epoch
                 ELSE /\ current_epoch' = current_epoch + 1
                      /\ pc' = IF ep' < epochs THEN "loop" ELSE "train_end"]_vars
    /\ [][pc = "loop" => pc' = "epoch" /\ trace' = Append(trace, "EPOCH_START")]_vars
    /\ [][pc = "train_end" =>
              pc' = "idle" /\ err' = "none" /\ trace' = Append(trace, "TRAIN_END")]_vars
    /\ [](Count(trace, "TRAIN_END") = IF FitReturned THEN 1 ELSE 0)

\* C9 witness: the call has returned after a stop at the EPOCH_END of its
\* first epoch, with epochs left to run.
C9_Witness ==
    /\ FitReturned /\ model_state = "end"
    /\ epochs = 2 /\ ep = 0
    /\ Count(trace, "EPOCH_START") = 1 /\ Count(trace, "EPOCH_END") = 1
    /\ trace[Len(trace)] = "TRAIN_END"

\* C3: when the TPU is requested and XLA is unavailable, fit and load raise
\* RuntimeError before any event is dispatched and before the model is moved
\* or loaded, and leave using_tpu, device, fp16 and current_epoch unchanged.
TpuCallWithoutXla ==
    /\ ncalls' = ncalls + 1
    /\ call'.op \in {"fit", "load"} /\ call'.device = "tpu"
    /\ ~XLA_AVAILABLE

C3_TpuUnavailable ==
    [][TpuCallWithoutXla =>
           /\ err' = "RuntimeError" /\ pc' = "idle"
           /\ Events(trace') = IF call'.op = "fit" THEN <<>> ELSE Events(trace)
           /\ UNCHANGED <<using_tpu, device, fp16, current_epoch>>
           /\ UNCHANGED <<model_device, weights, optimizer, scheduler>>]_vars

\* C3 witness: a fit on the TPU was refused after an earlier fit had trained
\* on a GPU.
C3_Witness ==
    /\ ~XLA_AVAILABLE /\ call.op = "fit" /\ call.device = "tpu"
    /\ err = "RuntimeError" /\ pc = "idle"
    /\ current_epoch > 0 /\ device = "cuda" /\ trace = <<>>

\* C4: save with weights_only false writes one record with exactly the
\* fields state_dict, optimizer, scheduler, epoch and fp16: the optimizer and
\* scheduler states, or None where the orchestrator has none, current_epoch
\* and the fp16 flag; with weights_only true it writes the state dict alone;
\* either way no attribute of the orchestrator changes.
SaveCall == ncalls' = ncalls + 1 /\ call'.op = "save"

C4_SaveWrites ==
    [][SaveCall =>
           /\ UNCHANGED <<attrs, net, locals>>
           /\ err' = "none" /\ ~IsNone(disk')
           /\ IF call'.weights_only
              THEN Val(disk') = state_dict(weights, wrapped)
              ELSE /\ DOMAIN Val(disk') = {"state_dict", "optimizer", "scheduler", "epoch", "fp16"}
                   /\ Val(disk').state_dict = state_dict(weights, wrapped)
                   /\ Val(disk').optimizer = optimizer
                   /\ Val(disk').scheduler = scheduler
                   /\ Val(disk').epoch = current_epoch
                   /\ Val(disk').fp16 = fp16]_vars

\* C4 witness: a full checkpoint of a trained orchestrator that has an
\* optimizer and no scheduler, in mixed precision.
C4_Witness ==
    /\ call.op = "save" /\ ~call.weights_only /\ ~IsNone(disk)
    /\ "epoch" \in DOMAIN Val(disk)
    /\ Val(disk).epoch > 0 /\ Val(disk).fp16
    /\ ~IsNone(Val(disk).optimizer) /\ IsNone(Val(disk).scheduler)

\* C5: a load of a full checkpoint restores the weights, the optimizer
\* state and the scheduler state (where one was saved), current_epoch and
\* fp16 to the values saved, whatever training came between.
C5_RoundTrip ==
    (call.op = "load" /\ ~call.weights_only /\ err = "none")
        => /\ weights = Val(disk).state_dict.params
           /\ IsNone(Val(disk).optimizer) \/ optimizer = Val(disk).optimizer
           /\ IsNone(Val(disk).scheduler) \/ scheduler = Val(disk).scheduler
           /\ current_epoch = Val(disk).epoch
           /\ fp16 = Val(disk).fp16

\* What load does restore: the weights saved.
LoadRestoresWeights ==
    (call.op = "load" /\ ~call.weights_only /\ err = "none")
        => weights = Val(disk).state_dict.params

\* C6: when distributed, a fit call issues init_process_group once and
\* before every other collective; every training epoch issues set_epoch with
\* current_epoch and then one barrier before its first step; every
\* validation step issues one barrier and then one all_gather; there is no
\* other collective, and none at all when local_rank is -1.  (A call refused
\* for the TPU issues nothing.)
CollectivesInOrder ==
    /\ local_rank = -1 => \A i \in DOMAIN trace : trace[i] \notin Collectives \cup {"set_epoch"}
    /\ local_rank # -1 =>
           /\ (call.op = "fit" /\ err # "RuntimeError")
                  => trace # <<>> /\ trace[1] = "init_process_group"
           /\ (call.op = "fit" /\ err = "RuntimeError") => trace = <<>>
           /\ Count(trace, "init_process_group") = IF trace = <<>> THEN 0 ELSE 1
           /\ \A i \in DOMAIN trace :
                  /\ trace[i] = "TRAIN_EPOCH_START"
                         => /\ i + 2 <= Len(trace)
                            /\ trace[i + 1] = "set_epoch" /\ trace[i + 2] = "barrier"
                            /\ i + 3 <= Len(trace) => trace[i + 3] = "TRAIN_STEP_START"
                  /\ trace[i] = "VALID_STEP_END"
                         => /\ trace[i - 3] = "VALID_STEP_START"
                            /\ trace[i - 2] = "barrier" /\ trace[i - 1] = "all_gather"
           /\ Count(trace, "set_epoch") = Count(trace, "TRAIN_EPOCH_START")
           /\ Count(trace, "all_gather") = Count(trace, "VALID_STEP_END")
           /\ Count(trace, "barrier")
                  = Count(trace, "TRAIN_EPOCH_START") + Count(trace, "VALID_STEP_END")

RetriesStep(p, e) == [pc |-> p, err |-> e]

\* fit, train_one_epoch and validate_one_epoch have no try / except: an
\* exception raised under them ends the call where it is raised.  [pc, err]
\* after the exception e is raised at position p.
Propagates(p, e) == [pc |-> "idle", err |-> e]

\* train_one_epoch, line 174, and validate_one_epoch, line 205: the forward
\* pass of the step raises (lines 112, 141).  train_one_step has already
\* zeroed the gradients where line 110 says so.
StepRaises ==
    /\ pc \in {"train_run", "valid_run"}
    /\ LET out == Propagates(pc, "StepError")
       IN pc' = out.pc /\ err' = out.err
    /\ grad' = IF pc = "train_run" /\ ZeroBefore(batch_index, accumulation_steps)
               THEN <<>> ELSE grad
    /\ UNCHANGED <<env, setup, sampler_epoch, optimizer, scheduler, current_epoch,
                   current_train_step, current_valid_step, batch_index, metrics,
                   model_state, train_state, weights, training, ep, b_idx, losses,
                   trace, applied, stopped, epoch_first>>

\* The event dispatched at each position where a callback runs first.
EventAt(p) ==
    CASE p = "loop" -> "EPOCH_START"
      [] p = "train_step" -> "TRAIN_STEP_START"
      [] p = "valid_step" -> "VALID_STEP_START"

\* The train_state setter, lines 72-74, at lines 422, 173 and 203: the state
\* is assigned, the callback runner is called and a callback raises.
CallbackRaises ==
    /\ pc \in {"loop", "train_step", "valid_step"}
    /\ LET out == Propagates(pc, "CallbackError")
       IN pc' = out.pc /\ err' = out.err
    /\ train_state' = EventAt(pc)
    /\ trace' = trace \o Dispatch(callback_runner, EventAt(pc))
    /\ batch_index' = IF pc = "train_step" THEN b_idx ELSE batch_index
    /\ UNCHANGED <<env, setup, sampler_epoch, optimizer, scheduler, current_epoch,
                   current_train_step, current_valid_step, metrics, model_state,
                   weights, grad, training, ep, b_idx, losses, applied, stopped,
                   epoch_first>>

\* step_scheduler_after and step_scheduler_metric as a subclass may set them
SchedulerAfter == {"None", "batch", "epoch"}
SchedulerMetrics == {"None", "current_epoch", "train_loss", "valid_loss"}

\* SpecSched: one fit call of an orchestrator with or without a scheduler,
\* under every step_scheduler_after and step_scheduler_metric; steps and
\* callbacks may raise.
InitSched ==
    /\ InitModel
    /\ XLA_AVAILABLE = FALSE /\ LOCAL_RANK = -1 /\ device_count = 1
    /\ fetch_scheduler \in BOOLEAN
    /\ step_scheduler_after \in SchedulerAfter
    /\ step_scheduler_metric \in SchedulerMetrics

NextSched ==
    \/ \E a \in FitArgs({"cuda"}, {-1}, {FALSE}, 1..MaxBatches, {None, Some(MaxValid)},
                        AccumulationSteps) :
           nfits = 0 /\ Fit(a, FALSE)
    \/ FitStep({FALSE})
    \/ StepRaises
    \/ CallbackRaises

SpecSched == InitSched /\ [][NextSched]_vars

\* C11: with a scheduler and step_scheduler_after = "batch" the scheduler is
\* stepped once right after every optimizer step and nowhere else; with
\* "epoch" once per epoch, after the epoch's last TRAIN_EPOCH_END or
\* VALID_EPOCH_END and right before EPOCH_END; with any other value never.
SteppedAfter(when) == ~IsNone(scheduler) /\ step_scheduler_after = when

SchedulerStepsPlaced ==
    \A i \in DOMAIN trace :
        /\ trace[i] \in OptimizerSteps
               => (SteppedAfter("batch") <=> (i < Len(trace) /\ trace[i + 1] = "scheduler.step"))
        /\ trace[i] = "EPOCH_END"
               => (SteppedAfter("epoch") <=> trace[i - 1] = "scheduler.step")
        /\ trace[i] = "scheduler.step"
               => IF SteppedAfter("batch")
                  THEN trace[i - 1] \in OptimizerSteps
                  ELSE /\ SteppedAfter("epoch")
                       /\ trace[i - 1] = (IF Truthy(valid_loader) THEN "VALID_EPOCH_END"
                                          ELSE "TRAIN_EPOCH_END")
                       /\ i < Len(trace) /\ trace[i + 1] = "EPOCH_END"

C11_SchedulerStepping == SchedulerStepsPlaced

\* The placement of C11 where no metric is given to the scheduler.
SchedulerSteppingNoMetric == step_scheduler_metric = "None" => SchedulerStepsPlaced

\* C16: no scheduler step of a fit fails on a missing metric, whatever
\* step_scheduler_after, step_scheduler_metric and the validation loader are.
C16_MetricLookup ==
    (call.op = "fit" /\ step_scheduler_metric # "None") => err # "KeyError"

\* C14: a failure under fit ends the call with the exception raised: the
\* call stops where it failed, the counters keep their values, no event
\* follows the one being dispatched, TRAIN_END is not dispatched, and no
\* batch of an epoch is started twice.
Fails == pc # "idle" /\ err = "none" /\ err' # "none"

StepsStartedUpTo(i) ==
    Cardinality({j \in EpochStartAt(i)..i : trace[j] = "TRAIN_STEP_START"})

C14_NoRecovery ==
    /\ [][Fails =>
              /\ pc' = "idle"
              /\ UNCHANGED <<current_epoch, current_train_step, current_valid_step>>
              /\ Events(trace') = Events(trace)
                     \o (IF err' = "CallbackError" THEN <<EventAt(pc)>> ELSE <<>>)]_vars
    /\ [][pc = "idle" => ncalls' = ncalls + 1]_vars
    /\ []((call.op = "fit" /\ err # "none")
              => pc = "idle" /\ Count(trace, "TRAIN_END") = 0)
    /\ [](\A i \in DOMAIN trace :
              trace[i] = "TRAIN_STEP_START"
                  => /\ StepsStartedUpTo(i) = BatchesBefore(i) + 1
                     /\ StepsStartedUpTo(i) <= TrainBatches)

\* C14 witness: the second epoch's training step raised after a full epoch.
C14_Witness ==
    /\ FitEnded /\ err = "StepError"
    /\ current_epoch = 1 /\ current_train_step >= 2
    /\ train_state = "TRAIN_STEP_START"

\* C12: current_train_step and current_valid_step grow by exactly one per
\* completed batch and never otherwise; at the events of a batch
\* current_train_step is the number of batches completed before it;
\* current_epoch at the i-th EPOCH_START of a call is its value at the start
\* of the call plus i; a fit of E epochs without early stop ends with
\* current_epoch grown by E.
TrainBatchCompletes == pc = "train_run" /\ pc' \in {"train_step", "train_done"}
ValidBatchCompletes == pc = "valid_run" /\ pc' \in {"valid_step", "valid_done"}

CountersFollowBatches ==
    /\ [][current_train_step'
              = current_train_step + (IF TrainBatchCompletes THEN 1 ELSE 0)]_vars
    /\ [][current_valid_step'
              = current_valid_step + (IF ValidBatchCompletes THEN 1 ELSE 0)]_vars
    /\ [](nfits = 1 => /\ current_train_step = Count(trace, "TRAIN_STEP_END")
                       /\ current_valid_step = Count(trace, "VALID_STEP_END"))
    /\ [][(current_epoch' # current_epoch \/ (pc # "idle" /\ ep' # ep))
              => current_epoch' = current_epoch + 1 /\ ep' = ep + 1]_vars
    /\ []((pc = "epoch" /\ nfits = 1) => current_epoch = Count(trace, "EPOCH_START") - 1)
    /\ [](pc = "epoch" => Count(trace, "EPOCH_START") = ep + 1)

C12_CountersExact ==
    /\ CountersFollowBatches
    /\ []((FitEnded /\ ~stopped /\ nfits = 1 /\ TrainBatches >= 1) => current_epoch = epochs)

\* The counters of C12 for the calls that return.
CountersExactReturned ==
    /\ CountersFollowBatches
    /\ []((FitReturned /\ ~stopped /\ nfits = 1) => current_epoch = epochs)
    /\ []((FitReturned /\ ~stopped) => ep = epochs)

\* C13: in distributed mode with no train sampler given, the sampler of the
\* train loader that fit builds is the train sampler of the orchestrator,
\* the one set_epoch is called on.
BuiltByCall(loader) == ~IsNone(loader) /\ Val(loader).src = ncalls

C13_LoaderUsesSampler ==
    (call.op = "fit" /\ local_rank # -1 /\ BuiltByCall(train_loader))
        => Val(train_loader).sampler = train_sampler

\* C15: a fit during which a callback asked to stop, at whatever event,
\* ends without error and with TRAIN_END as its last event.
C15_StopHonoured ==
    (FitEnded /\ stopped /\ TrainBatches >= 1)
        => err = "none" /\ trace # <<>> /\ trace[Len(trace)] = "TRAIN_END"

\* C17: using_tpu is true exactly when the device selected by the most
\* recent fit or load call is the TPU, and fp16 is never true with it.
C17_TpuFlag ==
    (call.op \in {"fit", "load"} /\ err = "none")
        => /\ using_tpu <=> RequestsTpu(call.device)
           /\ ~(fp16 /\ using_tpu)

\* C18: the train loader of every fit call is built from the train_dataset
\* of that call, and the network is wrapped at most once.
C18_OwnDataset ==
    (call.op = "fit" /\ err = "none")
        => BuiltByCall(train_loader) /\ wrapped <= 1

\* C20: validate_one_epoch runs no backward pass, optimizer step, scheduler
\* step or zero_grad and leaves the weights, current_epoch,
\* current_train_step, batch_index and the train entry of metrics as they
\* are; it sets evaluation mode and model_state VALID, adds one to
\* current_valid_step per batch and writes the valid entry of metrics.  Every
\* training step runs in training mode.
InValidation == pc \in {"valid", "valid_step", "valid_run", "valid_done"}

C20_ValidationFrame ==
    /\ [][InValidation =>
              /\ UNCHANGED <<weights, grad, optimizer, scheduler, applied>>
              /\ UNCHANGED <<current_epoch, current_train_step, batch_index>>
              /\ metrics'["train"] = metrics["train"] /\ metrics'["test"] = metrics["test"]
              /\ \A i \in (Len(trace) + 1)..Len(trace') :
                     trace'[i] \notin OptimizerSteps \cup {"scheduler.step"}
              /\ IF pc = "valid"
                 THEN training' = FALSE /\ model_state' = "valid"
                 ELSE training' = training
              /\ current_valid_step'
                     = current_valid_step + (IF ValidBatchCompletes THEN 1 ELSE 0)
              /\ (metrics' # metrics) => pc = "valid_done"]_vars
    /\ [](InValidation /\ pc # "valid" => ~training)
    /\ [](pc \in {"train_step", "train_run"} => training)

\* C20 witness: a training step of the second epoch, after the validation of
\* the first epoch ran on trained weights.
C20_Witness ==
    /\ pc = "train_run" /\ ep = 1 /\ weights > 0
    /\ Count(trace, "VALID_EPOCH_END") = 1 /\ current_valid_step >= 1
    /\ metrics["valid"] # {}

\* ------------------------------------------------------- a second instance
MaxOther == 2

\* The losses of the second instance's batches, apart from those of model_fn.
OtherLosses == {7, 8}

\* self.metrics of an instance: metrics is assigned in the class body, lines
\* 47-50, and in no instance, so the attribute lookup of every instance ends
\* at the one dict of the class.
MetricsOf(instance) == metrics

\* train_one_epoch / validate_one_epoch of a second instance B, between the
\* calls on the first: an epoch of one batch of the given loss ends with
\* update_metrics (lines 190, 225) on B under B's model_state.
OtherEpochEnd(state, loss) ==
    /\ pc = "idle" /\ other.epochs < MaxOther
    /\ LET meter == MeterUpdate(NewMeter, loss)
           um == update_metrics(MetricsOf("B"), state, meter)
       IN /\ metrics' = um.metrics
          /\ other' = [other EXCEPT ![state] = Some(MeterAvg(meter)), !.epochs = @ + 1]
    /\ UNCHANGED <<host, train_loader, valid_loader, optimizer, scheduler,
                   step_scheduler_after, step_scheduler_metric,
                   current_epoch, current_train_step, current_valid_step,
                   model_state, train_state, device, callback_runner,
                   fp16, scaler, accumulation_steps, batch_index,
                   using_tpu, local_rank, train_sampler, valid_sampler,
                   net, disk, locals, hist>>

\* SpecTwo: two instances in one process, the first running fit calls, the
\* second running epochs of its own between them.
InitTwo ==
    /\ InitModel
    /\ XLA_AVAILABLE = FALSE /\ LOCAL_RANK = -1 /\ device_count = 1
    /\ fetch_scheduler = FALSE /\ step_scheduler_after = "None" /\ step_scheduler_metric = "None"

NextTwo ==
    \/ \E a \in FitArgs({"cuda"}, {-1}, {FALSE}, 1..MaxBatches, {None, Some(MaxValid)}, {1}) :
           Fit(a, FALSE)
    \/ FitStep({FALSE})
    \/ \E state \in {"train", "valid"}, loss \in OtherLosses : OtherEpochEnd(state, loss)

SpecTwo == InitTwo /\ [][NextTwo]_vars

\* C19: the second instance reads from its metrics the means it wrote last,
\* whatever the first instance trains and validates in between.
OtherReads(state) == name_to_metric(state \o "_loss", MetricsOf("B"), 0)

C19_MetricsIndependent ==
    \A state \in {"train", "valid"} :
        ~IsNone(other[state])
            => OtherReads(state).ok /\ OtherReads(state).val = Val(other[state])
====
